---- MODULE Spec2Model ----
(***************************************************************************)
(* Weekly plan lifecycle and round-robin rotation engine of mealframe.     *)
(*                                                                         *)
(* The database tables are the state: every service function of           *)
(* backend/app/services is one action that reads and writes the tables     *)
(* the way the function does, ending with its flush.                       *)
(***************************************************************************)
EXTENDS Integers, Sequences, FiniteSets, TLC

VARIABLES
    meals,              \* ids of the rows of table meal
    links,              \* rows of table meal_to_meal_type: <<meal_id, meal_type_id>>
    round_robin_state,  \* rows of table round_robin_state
    instances,          \* rows of table weekly_plan_instance
    days,               \* rows of table weekly_plan_instance_day
    slots,              \* rows of table weekly_plan_slot
    today,              \* date.today()
    hist,               \* per meal type: meals returned since the last reset
    fresh,              \* per meal type: reset since the last change of its candidates
    ops,                \* number of calls that have written so far
    last,               \* the last call: its name, arguments and result
    calls               \* requests in flight: position, arguments, rows read, result

vars == <<meals, links, round_robin_state, instances, days, slots, today,
          hist, fresh, ops, last, calls>>

----------------------------------------------------------------------------
(* Bounds *)

\* longest recorded run of get_next_meal_for_type calls after a reset
MaxCalls == 6

\* number of lifecycle calls that write, per behaviour
MaxOps == 3

----------------------------------------------------------------------------
(* Catalog data *)

\* SQL NULL / Python None in a nullable column
NULL == 0

\* NULL in a text column
NULLTEXT == "NULL"

\* the requests that may be in flight together
Requests == {"a", "b"}

\* no request has begun
NoCalls ==
    [q \in Requests |->
        [pc |-> "idle", user_id |-> NULLTEXT, week_start_date |-> NULL,
         res |-> NULLTEXT, read_slots |-> {}, day_seq |-> <<>>]]

Users == {"u1", "u2"}
MealIds == {1, 2, 3}
\* meal types: 1 is Breakfast, 2 is Lunch, 3 is Snack (no meal is a snack)
MealTypes == {1, 2, 3}

\* meal.created_at; meals 1 and 3 share a timestamp so that the id tie-break matters
CreatedAt == [m \in MealIds |-> IF m = 2 THEN 1 ELSE 2]

\* meal_type.user_id
MealTypeOwner == [mt \in MealTypes |-> "u1"]

\* the meal-to-type links the catalog starts with
InitLinks == {<<1, 1>>, <<2, 1>>, <<3, 2>>}

\* day templates and their slot definitions (day_template, day_template_slot)
DayTemplates == {1, 2}
TemplateSlots ==
    [t \in DayTemplates |->
        IF t = 1 THEN {[position |-> 1, meal_type_id |-> 1],
                       [position |-> 2, meal_type_id |-> 2]}
        ELSE {[position |-> 1, meal_type_id |-> 3]}]

\* week plans (week_plan, week_plan_day): plan 1 is the default of u1 and maps
\* Monday and Tuesday only; plan 2 maps all seven weekdays to template 1
WeekPlans == {1, 2}
WeekPlanOwner == [wp \in WeekPlans |-> "u1"]
WeekPlanIsDefault == [wp \in WeekPlans |-> wp = 1]
WeekPlanDays ==
    [wp \in WeekPlans |->
        IF wp = 1 THEN {[weekday |-> 0, day_template_id |-> 1],
                        [weekday |-> 1, day_template_id |-> 2]}
        ELSE {[weekday |-> w, day_template_id |-> 1] : w \in 0..6}]

\* calendar: day numbers, day 7 is a Monday
Weekday(d) == d % 7
\* two of the statuses ck_weekly_plan_slot_status allows
CompletionStatuses == {"followed", "skipped"}

----------------------------------------------------------------------------
(* Round-robin selection: services/round_robin.py *)

\* a variant that lists the newest meal first
PrecedesNewestFirst(a, b) ==
    \/ CreatedAt[a] > CreatedAt[b]
    \/ CreatedAt[a] = CreatedAt[b] /\ a < b

\* ORDER BY created_at ASC, id ASC
Precedes(a, b) ==
    \/ CreatedAt[a] < CreatedAt[b]
    \/ CreatedAt[a] = CreatedAt[b] /\ a < b

RECURSIVE OrderMeals(_)
OrderMeals(S) ==
    IF S = {} THEN <<>>
    ELSE LET first == CHOOSE x \in S : \A y \in S \ {x} : Precedes(x, y)
         IN  <<first>> \o OrderMeals(S \ {first})

get_meals_for_type(ms, lnk, mt) ==
    OrderMeals({m \in ms : <<m, mt>> \in lnk})

\* the rows of the meal type (none or one)
get_round_robin_state(rrs, mt) ==
    {r \in rrs : r.meal_type_id = mt}

update_round_robin_state_insert_only(rrs, mt, meal_id) ==
    IF get_round_robin_state(rrs, mt) # {} THEN rrs
    ELSE rrs \cup {[user_id |-> MealTypeOwner[mt],
                    meal_type_id |-> mt,
                    last_meal_id |-> meal_id]}

update_round_robin_state(rrs, mt, meal_id) ==
    LET state == get_round_robin_state(rrs, mt)
    IN  IF state # {}
        THEN (rrs \ state) \cup
             {[r EXCEPT !.last_meal_id = meal_id] : r \in state}
        ELSE rrs \cup {[user_id |-> MealTypeOwner[mt],
                        meal_type_id |-> mt,
                        last_meal_id |-> meal_id]}

LastIndexZero(ml, last_meal_id) ==
    IF \E i \in 1..Len(ml) : ml[i] = last_meal_id
    THEN (CHOOSE i \in 1..Len(ml) :
             /\ ml[i] = last_meal_id
             /\ \A j \in 1..(i - 1) : ml[j] # last_meal_id) - 1
    ELSE 0

\* the enumerate loop: index (from 0) of the last used meal, -1 when not found
LastIndex(ml, last_meal_id) ==
    IF \E i \in 1..Len(ml) : ml[i] = last_meal_id
    THEN (CHOOSE i \in 1..Len(ml) :
             /\ ml[i] = last_meal_id
             /\ \A j \in 1..(i - 1) : ml[j] # last_meal_id) - 1
    ELSE -1

NextIndexNoAdvance(ml, last_meal_id) ==
    IF LastIndex(ml, last_meal_id) = -1 THEN 0
    ELSE LastIndex(ml, last_meal_id) % Len(ml)

NextIndex(ml, last_meal_id) ==
    (LastIndex(ml, last_meal_id) + 1) % Len(ml)

\* the meal the rotation selects, NULL when the type has no meals
SelectNextMeal(ml, state) ==
    IF Len(ml) = 0 THEN NULL
    ELSE IF Len(ml) = 1 THEN ml[1]
    ELSE IF state = {} \/ (\E r \in state : r.last_meal_id = NULL) THEN ml[1]
    ELSE LET r == CHOOSE x \in state : TRUE
         IN  ml[NextIndex(ml, r.last_meal_id) + 1]

\* the returned meal and the table after the call
get_next_meal_for_type(ms, lnk, rrs, mt) ==
    LET ml   == get_meals_for_type(ms, lnk, mt)
        meal == SelectNextMeal(ml, get_round_robin_state(rrs, mt))
    IN  [meal |-> meal,
         rrs  |-> IF meal = NULL THEN rrs
                  ELSE update_round_robin_state(rrs, mt, meal)]

\* a variant that stays on the last used meal
PeekNextIndexStay(ml, last_meal_id) ==
    IF \E i \in 1..Len(ml) : ml[i] = last_meal_id
    THEN (CHOOSE i \in 1..Len(ml) : ml[i] = last_meal_id) - 1
    ELSE 0

\* the loop and the wraparound of the preview: 0 when the last used meal is
\* not among the meals
PeekNextIndex(ml, last_meal_id) ==
    LET hits == {i \in 1..Len(ml) : ml[i] = last_meal_id}
        last_index == IF hits = {} THEN -1
                      ELSE (CHOOSE i \in hits : \A j \in hits : i <= j) - 1
    IN  (last_index + 1) % Len(ml)

\* the preview: the returned meal, NULL for none; it writes nothing
peek_next_meal_for_type(ms, lnk, rrs, mt) ==
    LET ml    == get_meals_for_type(ms, lnk, mt)
        state == get_round_robin_state(rrs, mt)
    IN  IF Len(ml) = 0 THEN NULL
        ELSE IF Len(ml) = 1 THEN ml[1]
        ELSE IF state = {} \/ (\E r \in state : r.last_meal_id = NULL)
        THEN ml[1]
        ELSE ml[PeekNextIndex(ml, (CHOOSE r \in state : TRUE).last_meal_id) + 1]

reset_round_robin_state(rrs, mt) ==
    rrs \ get_round_robin_state(rrs, mt)

----------------------------------------------------------------------------
(* Actions on the rotation alone *)

Lifecycle == <<instances, days, slots, today, ops, calls>>

\* the pointer of a meal type before a call: has_row and last_meal_id
Pointer(rrs, mt) ==
    LET state == get_round_robin_state(rrs, mt)
    IN  IF state = {} THEN [has_row |-> FALSE, last_meal_id |-> NULL]
        ELSE [has_row |-> TRUE,
              last_meal_id |-> (CHOOSE r \in state : TRUE).last_meal_id]

NextMeal(mt) ==
    LET res == get_next_meal_for_type(meals, links, round_robin_state, mt)
    IN  /\ fresh[mt] => Len(hist[mt]) < MaxCalls
        /\ round_robin_state' = res.rrs
        /\ hist' = IF fresh[mt] /\ res.meal # NULL
                   THEN [hist EXCEPT ![mt] = Append(@, res.meal)]
                   ELSE hist
        /\ last' = [op |-> "next", mt |-> mt, ret |-> res.meal,
                    before |-> round_robin_state]
        /\ UNCHANGED <<meals, links, fresh, Lifecycle>>

\* a preview of the next meal: no table is written
PeekMeal(mt) ==
    /\ last' = [op |-> "peek", mt |-> mt,
                ret |-> peek_next_meal_for_type(meals, links, round_robin_state, mt),
                before |-> round_robin_state]
    /\ UNCHANGED <<meals, links, round_robin_state, hist, fresh, Lifecycle>>

ResetState(mt) ==
    /\ round_robin_state' = reset_round_robin_state(round_robin_state, mt)
    /\ hist' = [hist EXCEPT ![mt] = <<>>]
    /\ fresh' = [fresh EXCEPT ![mt] = TRUE]
    /\ last' = [op |-> "reset", mt |-> mt]
    /\ UNCHANGED <<meals, links, Lifecycle>>

\* a meal is linked to a meal type (meal CRUD)
LinkMeal(m, mt) ==
    /\ m \in meals
    /\ <<m, mt>> \notin links
    /\ links' = links \cup {<<m, mt>>}
    /\ hist' = [hist EXCEPT ![mt] = <<>>]
    /\ fresh' = [fresh EXCEPT ![mt] = FALSE]
    /\ last' = [op |-> "link", mt |-> mt, meal |-> m]
    /\ UNCHANGED <<meals, round_robin_state, Lifecycle>>

\* a meal is unlinked from a meal type: the pointer row is left as it is
UnlinkMeal(m, mt) ==
    /\ <<m, mt>> \in links
    /\ links' = links \ {<<m, mt>>}
    /\ hist' = [hist EXCEPT ![mt] = <<>>]
    /\ fresh' = [fresh EXCEPT ![mt] = FALSE]
    /\ last' = [op |-> "unlink", mt |-> mt, meal |-> m]
    /\ UNCHANGED <<meals, round_robin_state, Lifecycle>>

\* a meal row is deleted: links cascade, last_meal_id is ON DELETE SET NULL
DeleteMeal(m) ==
    /\ m \in meals
    /\ meals' = meals \ {m}
    /\ links' = {l \in links : l[1] # m}
    /\ round_robin_state' =
           {IF r.last_meal_id = m THEN [r EXCEPT !.last_meal_id = NULL] ELSE r
              : r \in round_robin_state}
    /\ hist' = [mt \in MealTypes |-> IF <<m, mt>> \in links THEN <<>> ELSE hist[mt]]
    /\ fresh' = [mt \in MealTypes |-> IF <<m, mt>> \in links THEN FALSE ELSE fresh[mt]]
    /\ last' = [op |-> "delete_meal", meal |-> m]
    /\ UNCHANGED Lifecycle

InitRR ==
    /\ meals = MealIds
    /\ links = InitLinks
    /\ round_robin_state = {}
    /\ instances = {}
    /\ days = {}
    /\ slots = {}
    /\ today = 7
    /\ ops = 0
    /\ hist = [mt \in MealTypes |-> <<>>]
    /\ fresh = [mt \in MealTypes |-> TRUE]
    /\ last = [op |-> "init"]
    /\ calls = NoCalls

\* the meal types whose meals are edited and drawn call by call; Snack is left
\* without meals throughout
RotatedTypes == {1, 2}

NextRR ==
    \/ \E mt \in RotatedTypes : NextMeal(mt)
    \/ \E mt \in RotatedTypes : PeekMeal(mt)
    \/ \E mt \in RotatedTypes : ResetState(mt)
    \/ \E m \in MealIds, mt \in RotatedTypes : LinkMeal(m, mt)
    \/ \E m \in MealIds, mt \in RotatedTypes : UnlinkMeal(m, mt)
    \/ \E m \in MealIds : DeleteMeal(m)

SpecRR == InitRR /\ [][NextRR]_vars

----------------------------------------------------------------------------
(* Weekly plan lifecycle: services/weekly.py *)

get_week_start_date(target_date) == target_date - Weekday(target_date)

get_next_monday(from_date) ==
    LET days_until_monday == (7 - Weekday(from_date)) % 7
    IN  from_date + (IF days_until_monday = 0 THEN 7 ELSE days_until_monday)

\* the default week plans of a user (none or one)
get_default_week_plan(user_id) ==
    {wp \in WeekPlans : WeekPlanIsDefault[wp] /\ WeekPlanOwner[wp] = user_id}

\* a variant that looks the week up for any user
get_weekly_instance_by_week_start_any_user(week_start_date, user_id) ==
    {i \in instances : i.week_start_date = week_start_date}

\* a variant that never finds a week
get_weekly_instance_by_week_start_none(week_start_date, user_id) == {}

\* the instances of the user for the week (none or one)
get_weekly_instance_by_week_start(week_start_date, user_id) ==
    {i \in instances : i.week_start_date = week_start_date /\ i.user_id = user_id}

\* the instance of the week the date lies in, or of the current week
get_week_instance(user_id, week_start_arg) ==
    get_weekly_instance_by_week_start(
        IF week_start_arg = NULL THEN get_week_start_date(today)
        ELSE get_week_start_date(week_start_arg),
        user_id)

get_instance_day(instance_id, target_date) ==
    {d \in days : d.weekly_plan_instance_id = instance_id /\ d.date = target_date}

\* WHERE weekly_plan_instance_id = :instance_id AND date = :target_date
SlotsOfDay(ss, instance_id, target_date) ==
    {s \in ss : s.weekly_plan_instance_id = instance_id /\ s.date = target_date}

\* sorted(template.slots, key=lambda s: s.position)
RECURSIVE SortByPosition(_)
SortByPosition(S) ==
    IF S = {} THEN <<>>
    ELSE LET first == CHOOSE x \in S : \A y \in S : x.position <= y.position
         IN  <<first>> \o SortByPosition(S \ {first})

\* default=uuid4: an id no row of the table carries
RECURSIVE FirstFreeId(_, _)
FirstFreeId(used, i) ==
    IF i \notin used THEN i ELSE FirstFreeId(used, i + 1)

FreshId(ss) == FirstFreeId({s.id : s \in ss}, 1)

\* the loop "for slot in slots": one get_next_meal_for_type call and one new
\* weekly_plan_slot row per slot definition, in order of position
RECURSIVE NewSlots(_, _, _, _, _)
NewSlots(defs, instance_id, current_date, rrs, ss) ==
    IF defs = <<>> THEN [slots |-> ss, rrs |-> rrs]
    ELSE LET slot == Head(defs)
             res  == get_next_meal_for_type(meals, links, rrs, slot.meal_type_id)
             plan_slot ==
                 [id |-> FreshId(ss),
                  weekly_plan_instance_id |-> instance_id,
                  date |-> current_date,
                  position |-> slot.position,
                  meal_type_id |-> slot.meal_type_id,
                  meal_id |-> res.meal,
                  is_adhoc |-> FALSE,
                  is_manual_override |-> FALSE,
                  completion_status |-> NULLTEXT,
                  completed_at |-> NULL,
                  actual_meal_id |-> NULL]
         IN  NewSlots(Tail(defs), instance_id, current_date, res.rrs,
                      ss \cup {plan_slot})

\* a variant without the constraint
SlotPositionsUnchecked(ss) == TRUE

\* UniqueConstraint uq_weekly_plan_slot_position, checked at flush
SlotPositionsUnique(ss) ==
    \A s, t \in ss :
        (/\ s.weekly_plan_instance_id = t.weekly_plan_instance_id
         /\ s.date = t.date
         /\ s.position = t.position) => s = t

\* a variant that ignores the weekday: every weekday gets a template of the plan
DayMapAnyWeekday(week_plan, weekday) ==
    {wpd.day_template_id : wpd \in WeekPlanDays[week_plan]}

\* day_map.get(weekday): the template the week plan maps the weekday to, if any
DayMap(week_plan, weekday) ==
    {wpd.day_template_id : wpd \in {x \in WeekPlanDays[week_plan] : x.weekday = weekday}}

\* the loop "for day_offset in range(7)" of generate_weekly_plan
RECURSIVE GenerateDays(_, _, _, _, _)
GenerateDays(day_offset, instance, week_plan, acc_days, acc) ==
    IF day_offset = 7 THEN [days |-> acc_days, slots |-> acc.slots, rrs |-> acc.rrs]
    ELSE LET current_date == instance.week_start_date + day_offset
             mapped == DayMap(week_plan, day_offset)
         IN  IF mapped = {}
             THEN GenerateDays(day_offset + 1, instance, week_plan, acc_days, acc)
             ELSE LET template_id == CHOOSE t \in mapped : TRUE
                      instance_day ==
                          [weekly_plan_instance_id |-> instance.id,
                           date |-> current_date,
                           day_template_id |-> template_id,
                           is_override |-> FALSE,
                           override_reason |-> NULLTEXT]
                  IN  GenerateDays(day_offset + 1, instance, week_plan,
                                   acc_days \cup {instance_day},
                                   NewSlots(SortByPosition(TemplateSlots[template_id]),
                                            instance.id, current_date,
                                            acc.rrs, acc.slots))

Rotation == <<meals, links, hist, fresh>>

\* the tables a lifecycle call reads and writes
Tables ==
    [instances |-> instances, days |-> days, slots |-> slots,
     rrs |-> round_robin_state]

\* a call that raises or returns an error: the tables stay as they are
Failed(error) == [res |-> error] @@ Tables

generate_weekly_plan(user_id, week_start_arg, week_plan_id) ==
    LET week_start_date == IF week_start_arg = NULL THEN get_next_monday(today)
                           ELSE week_start_arg
    IN  IF Weekday(week_start_date) # 0
        THEN Failed("must be a Monday")
        ELSE IF get_weekly_instance_by_week_start(week_start_date, user_id) # {}
        THEN Failed("already exists")
        ELSE IF week_plan_id # NULL /\ week_plan_id \notin WeekPlans
        THEN Failed("week plan not found")
        ELSE IF week_plan_id = NULL /\ get_default_week_plan(user_id) = {}
        THEN Failed("no default week plan")
        ELSE LET week_plan == IF week_plan_id # NULL THEN week_plan_id
                              ELSE CHOOSE wp \in get_default_week_plan(user_id) : TRUE
                 instance == [id |-> Cardinality(instances) + 1,
                              week_plan_id |-> week_plan,
                              week_start_date |-> week_start_date,
                              user_id |-> user_id]
                 gen == GenerateDays(0, instance, week_plan, days,
                                     [slots |-> slots, rrs |-> round_robin_state])
             IN  [res |-> "ok",
                  instances |-> instances \cup {instance},
                  days |-> gen.days,
                  slots |-> gen.slots,
                  rrs |-> gen.rrs]

\* full_instance.days carries no ORDER BY: the days come in any order
RECURSIVE Orderings(_)
Orderings(S) ==
    IF S = {} THEN {<<>>}
    ELSE UNION {{<<x>> \o p : p \in Orderings(S \ {x})} : x \in S}

\* the loop "for slot in uncompleted_slots" of regenerate_weekly_plan
RECURSIVE RegenerateSlots(_, _, _)
RegenerateSlots(uncompleted_slots, template_id, acc) ==
    IF uncompleted_slots = <<>> THEN acc
    ELSE LET slot == Head(uncompleted_slots)
             template_slot == {ts \in TemplateSlots[template_id] :
                                  ts.position = slot.position}
         IN  IF template_slot = {}
             THEN RegenerateSlots(Tail(uncompleted_slots), template_id, acc)
             ELSE LET ts  == CHOOSE x \in template_slot : TRUE
                      res == get_next_meal_for_type(meals, links, acc.rrs, ts.meal_type_id)
                  IN  RegenerateSlots(
                          Tail(uncompleted_slots), template_id,
                          [slots |-> (acc.slots \ {slot}) \cup
                                         {[slot EXCEPT !.meal_id = res.meal]},
                           rrs |-> res.rrs])

\* a variant that keeps no track of completion: every slot of the day is redrawn
UncompletedSlotsAll(current_slots) == current_slots

\* uncompleted_slots = [s for s in current_slots if s.completion_status is None]
UncompletedSlots(current_slots) ==
    {s \in current_slots : s.completion_status = NULLTEXT}

\* the loop "for instance_day in full_instance.days" of regenerate_weekly_plan
RECURSIVE RegenerateDays(_, _)
RegenerateDays(day_seq, acc) ==
    IF day_seq = <<>> THEN acc
    ELSE LET instance_day == Head(day_seq)
             current_slots == SlotsOfDay(acc.slots, instance_day.weekly_plan_instance_id,
                                         instance_day.date)
             uncompleted_slots == UncompletedSlots(current_slots)
         IN  IF \/ instance_day.is_override
                \/ instance_day.day_template_id = NULL
                \/ uncompleted_slots = {}
                \/ instance_day.day_template_id \notin DayTemplates
             THEN RegenerateDays(Tail(day_seq), acc)
             ELSE RegenerateDays(Tail(day_seq),
                                 RegenerateSlots(SortByPosition(uncompleted_slots),
                                                 instance_day.day_template_id, acc))

\* the orders in which regenerate_weekly_plan may visit the days of the week
DayOrders(week_start_arg, user_id) ==
    LET found == get_weekly_instance_by_week_start(
                     get_week_start_date(week_start_arg), user_id)
    IN  Orderings({d \in days : \E i \in found : d.weekly_plan_instance_id = i.id})

regenerate_weekly_plan(week_start_arg, user_id, day_seq) ==
    LET week_start_date == get_week_start_date(week_start_arg)
        found == get_weekly_instance_by_week_start(week_start_date, user_id)
    IN  IF found = {}
        THEN Failed("no week plan exists")
        ELSE LET regen == RegenerateDays(day_seq, [slots |-> slots,
                                                   rrs |-> round_robin_state])
             IN  [res |-> "ok",
                  instances |-> instances,
                  days |-> days,
                  slots |-> regen.slots,
                  rrs |-> regen.rrs]

\* a variant that spares the completed slots of the day
DeletedBySwitchUncompleted(instance_id, target_date) ==
    {s \in SlotsOfDay(slots, instance_id, target_date) :
        s.completion_status = NULLTEXT}

\* delete(WeeklyPlanSlot).where(instance, date): every slot of the day
DeletedBySwitch(instance_id, target_date) ==
    SlotsOfDay(slots, instance_id, target_date)

switch_day_template(instance_id, target_date, new_template_id) ==
    LET found == get_instance_day(instance_id, target_date)
    IN  IF found = {}
        THEN Failed("no day record")
        ELSE IF new_template_id \notin DayTemplates
        THEN Failed("day template not found")
        ELSE LET instance_day == CHOOSE d \in found : TRUE
                 kept == slots \ DeletedBySwitch(instance_id, target_date)
                 gen == NewSlots(SortByPosition(TemplateSlots[new_template_id]),
                                 instance_id, target_date, round_robin_state, kept)
             IN  [res |-> "ok",
                  instances |-> instances,
                  days |-> (days \ {instance_day}) \cup
                           {[instance_day EXCEPT !.day_template_id = new_template_id,
                                                 !.is_override = FALSE,
                                                 !.override_reason = NULLTEXT]},
                  slots |-> gen.slots,
                  rrs |-> gen.rrs]

\* a variant that also forgets the rotation pointers
set_day_override_rewinding(instance_id, target_date, reason) ==
    LET found == get_instance_day(instance_id, target_date)
    IN  IF found = {}
        THEN Failed("no day record")
        ELSE [res |-> "ok", instances |-> instances, days |-> days,
              slots |-> slots \ SlotsOfDay(slots, instance_id, target_date),
              rrs |-> {}]

set_day_override(instance_id, target_date, reason) ==
    LET found == get_instance_day(instance_id, target_date)
    IN  IF found = {}
        THEN Failed("no day record")
        ELSE LET instance_day == CHOOSE d \in found : TRUE
             IN  [res |-> "ok",
                  instances |-> instances,
                  days |-> (days \ {instance_day}) \cup
                           {[instance_day EXCEPT !.is_override = TRUE,
                                                 !.override_reason = reason]},
                  slots |-> slots \ SlotsOfDay(slots, instance_id, target_date),
                  rrs |-> round_robin_state]

clear_day_override(instance_id, target_date) ==
    LET found == get_instance_day(instance_id, target_date)
    IN  IF found = {}
        THEN Failed("no day record")
        ELSE LET instance_day == CHOOSE d \in found : TRUE
             IN  IF instance_day.day_template_id = NULL
                 THEN Failed("no template available")
                 ELSE IF instance_day.day_template_id \notin DayTemplates
                 THEN Failed("template not found")
                 ELSE LET gen == NewSlots(
                                   SortByPosition(TemplateSlots[instance_day.day_template_id]),
                                   instance_id, target_date, round_robin_state, slots)
                      IN  IF ~SlotPositionsUnique(gen.slots)
                          THEN Failed("IntegrityError")
                          ELSE [res |-> "ok",
                                instances |-> instances,
                                days |-> (days \ {instance_day}) \cup
                                         {[instance_day EXCEPT
                                              !.is_override = FALSE,
                                              !.override_reason = NULLTEXT]},
                                slots |-> gen.slots,
                                rrs |-> gen.rrs]

----------------------------------------------------------------------------
(* Completion, ad-hoc slots and reassignment: services/today.py *)

get_slot_by_id(slot_id) == {s \in slots : s.id = slot_id}

\* the tables with one slot row rewritten
WithSlot(slot, row) ==
    [res |-> "ok", instances |-> instances, days |-> days,
     slots |-> (slots \ {slot}) \cup {row}, rrs |-> round_robin_state]

\* a variant that sets the status alone
complete_slot_status_only(slot_id, status) ==
    LET found == get_slot_by_id(slot_id)
    IN  IF found = {}
        THEN Failed("not found")
        ELSE LET slot == CHOOSE s \in found : TRUE
             IN  WithSlot(slot, [slot EXCEPT !.completion_status = status])

complete_slot(slot_id, status) ==
    LET found == get_slot_by_id(slot_id)
    IN  IF found = {}
        THEN Failed("not found")
        ELSE LET slot == CHOOSE s \in found : TRUE
             IN  WithSlot(slot, [slot EXCEPT !.completion_status = status,
                                             !.completed_at = today])

\* a variant that leaves the timestamp
uncomplete_slot_status_only(slot_id) ==
    LET found == get_slot_by_id(slot_id)
    IN  IF found = {}
        THEN Failed("not found")
        ELSE LET slot == CHOOSE s \in found : TRUE
             IN  WithSlot(slot, [slot EXCEPT !.completion_status = NULLTEXT])

uncomplete_slot(slot_id) ==
    LET found == get_slot_by_id(slot_id)
    IN  IF found = {}
        THEN Failed("not found")
        ELSE LET slot == CHOOSE s \in found : TRUE
             IN  WithSlot(slot, [slot EXCEPT !.completion_status = NULLTEXT,
                                             !.completed_at = NULL])

\* func.coalesce(func.max(position), -1) over the slots of the day
MaxPosition(day_slots) ==
    IF day_slots = {} THEN -1
    ELSE CHOOSE p \in {s.position : s \in day_slots} :
             \A s \in day_slots : s.position <= p

\* meal.meal_types[0]: the relationship carries no ORDER BY, so any linked type
\* can come first; NULL when the meal has no type
FirstMealTypes(meal_id) ==
    LET meal_types == {mt \in MealTypes : <<meal_id, mt>> \in links}
    IN  IF meal_types = {} THEN {NULL} ELSE meal_types

create_adhoc_slot(target_date, meal_id, first_meal_type_id) ==
    LET week_start == get_week_start_date(target_date)
        found == {i \in instances : i.week_start_date = week_start}
    IN  IF Cardinality(found) > 1
        THEN Failed("MultipleResultsFound")
        ELSE IF found = {}
        THEN Failed("not found")
        ELSE IF meal_id \notin meals
        THEN Failed("not found")
        ELSE LET instance == CHOOSE i \in found : TRUE
                 next_position ==
                     MaxPosition(SlotsOfDay(slots, instance.id, target_date)) + 1
                 slot == [id |-> FreshId(slots),
                          weekly_plan_instance_id |-> instance.id,
                          date |-> target_date,
                          position |-> next_position,
                          meal_type_id |-> first_meal_type_id,
                          meal_id |-> meal_id,
                          is_adhoc |-> TRUE,
                          is_manual_override |-> FALSE,
                          completion_status |-> NULLTEXT,
                          completed_at |-> NULL,
                          actual_meal_id |-> NULL]
             IN  [res |-> "ok", instances |-> instances, days |-> days,
                  slots |-> slots \cup {slot}, rrs |-> round_robin_state]

\* a variant that deletes whatever slot has the id
delete_adhoc_slot_any(slot_id) ==
    LET found == get_slot_by_id(slot_id)
    IN  IF found = {}
        THEN Failed("not found")
        ELSE [res |-> "ok", instances |-> instances, days |-> days,
              slots |-> slots \ found, rrs |-> round_robin_state]

delete_adhoc_slot(slot_id) ==
    LET found == get_slot_by_id(slot_id)
    IN  IF found = {}
        THEN Failed("not found")
        ELSE IF \E s \in found : ~s.is_adhoc
        THEN Failed("not adhoc")
        ELSE [res |-> "ok", instances |-> instances, days |-> days,
              slots |-> slots \ found, rrs |-> round_robin_state]

\* delete_meal_slot: the response status for each result of delete_adhoc_slot
\* (None, False, True)
delete_meal_slot_status(res) ==
    IF res = "not found" THEN 404
    ELSE IF res = "not adhoc" THEN 403
    ELSE 204

\* a variant that looks at the given meal type only
TargetMealTypeGiven(slot, meal_type_id) == meal_type_id

\* target_meal_type_id = meal_type_id if meal_type_id is not None else slot.meal_type_id
TargetMealType(slot, meal_type_id) ==
    IF meal_type_id # NULL THEN meal_type_id ELSE slot.meal_type_id

\* a variant that leaves the completion of the slot as it is
ReassignedKeepCompletion(slot, meal_id, meal_type_id) ==
    [slot EXCEPT
        !.meal_id = meal_id,
        !.meal_type_id = IF meal_type_id # NULL THEN meal_type_id ELSE @,
        !.is_manual_override = TRUE]

\* "Apply the reassignment": the row of the slot after a successful call
Reassigned(slot, meal_id, meal_type_id) ==
    [slot EXCEPT
        !.meal_id = meal_id,
        !.meal_type_id = IF meal_type_id # NULL THEN meal_type_id ELSE @,
        !.is_manual_override = TRUE,
        !.completion_status = NULLTEXT,
        !.completed_at = IF slot.completion_status # NULLTEXT THEN NULL ELSE @]

reassign_slot(slot_id, meal_id, meal_type_id) ==
    LET found == get_slot_by_id(slot_id)
    IN  IF found = {}
        THEN Failed("NOT_FOUND")
        ELSE LET slot == CHOOSE s \in found : TRUE
                 target_meal_type_id == TargetMealType(slot, meal_type_id)
             IN  IF slot.date < today
                 THEN Failed("PAST_DATE")
                 ELSE IF meal_id \notin meals
                 THEN Failed("MEAL_NOT_FOUND")
                 ELSE IF /\ target_meal_type_id # NULL
                         /\ <<meal_id, target_meal_type_id>> \notin links
                 THEN Failed("MEAL_TYPE_MISMATCH")
                 ELSE WithSlot(slot, Reassigned(slot, meal_id, meal_type_id))

----------------------------------------------------------------------------
(* The lifecycle specification: the calls a client can make, in any order *)

\* POST /weekly-plans/generate. A week that exists is to be regenerated, but
\* regenerate_weekly_plan is called without its required user_id: the call
\* raises TypeError, which the handler's except ValueError does not catch
generate_week(user_id, week_start_arg) ==
    LET r == generate_weekly_plan(user_id, week_start_arg, NULL)
    IN  IF r.res = "ok" THEN [status |-> 201] @@ r
        ELSE IF r.res = "already exists"
        THEN [status |-> 500] @@ Failed("TypeError")
        ELSE [status |-> 400] @@ Failed(r.res)

\* the arguments the calls are made with. Unknown ids and dates of weeks that
\* are never generated make a call fail; statuses, reasons, meals and meal types
\* beyond these are treated alike by the code.
WeekStartArgs == {NULL, 7, 9}
WeekPlanArgs == {NULL, 1}
RegenerateArgs == {9, 14}
DateArgs == {7, 8, 14}
AdhocDateArgs == {8, 9}
ReasonArgs == {"party"}
StatusArgs == {"followed"}
AdhocMealArgs == {1, 3}
MealTypeArgs == {NULL, 2}
InstanceArgs == {i.id : i \in instances}
SlotArgs == {s.id : s \in slots}

Init ==
    /\ meals = MealIds
    /\ links = InitLinks
    /\ round_robin_state = {}
    /\ instances = {}
    /\ days = {}
    /\ slots = {}
    /\ today = 8
    /\ ops = 0
    /\ hist = [mt \in MealTypes |-> <<>>]
    /\ fresh = [mt \in MealTypes |-> TRUE]
    /\ last = [op |-> "init"]
    /\ calls = NoCalls

\* one call that succeeds: the tables become what the call leaves. A call that
\* fails leaves the tables as they were, which is a stuttering step.
Call(r) ==
    /\ r.res = "ok"
    /\ instances' = r.instances
    /\ days' = r.days
    /\ slots' = r.slots
    /\ round_robin_state' = r.rrs
    /\ ops' = ops + 1
    /\ UNCHANGED <<today, last, Rotation, calls>>

Generate ==
    /\ ops < MaxOps
    /\ \E u \in Users, ws \in WeekStartArgs, wp \in WeekPlanArgs :
        \E r \in {generate_weekly_plan(u, ws, wp)} : Call(r)

GenerateWeek ==
    /\ ops < MaxOps
    /\ \E u \in Users, ws \in WeekStartArgs :
        \E r \in {generate_week(u, ws)} : Call(r)

Regenerate ==
    /\ ops < MaxOps
    /\ \E u \in Users, d \in RegenerateArgs :
        \E day_seq \in DayOrders(d, u) :
            \E r \in {regenerate_weekly_plan(d, u, day_seq)} : Call(r)

SwitchTemplate ==
    /\ ops < MaxOps
    /\ \E i \in InstanceArgs, d \in DateArgs, t \in DayTemplates :
        \E r \in {switch_day_template(i, d, t)} : Call(r)

SetOverride ==
    /\ ops < MaxOps
    /\ \E i \in InstanceArgs, d \in DateArgs, reason \in ReasonArgs :
        \E r \in {set_day_override(i, d, reason)} : Call(r)

ClearOverride ==
    /\ ops < MaxOps
    /\ \E i \in InstanceArgs, d \in DateArgs :
        \E r \in {clear_day_override(i, d)} : Call(r)

Complete ==
    /\ ops < MaxOps
    /\ \E id \in SlotArgs, st \in StatusArgs :
        \E r \in {complete_slot(id, st)} : Call(r)

Uncomplete ==
    /\ ops < MaxOps
    /\ \E id \in SlotArgs : \E r \in {uncomplete_slot(id)} : Call(r)

AddAdhocSlot ==
    /\ ops < MaxOps
    /\ \E d \in AdhocDateArgs, m \in AdhocMealArgs :
        \E first \in FirstMealTypes(m) :
            \E r \in {create_adhoc_slot(d, m, first)} : Call(r)

DeleteAdhocSlot ==
    /\ ops < MaxOps
    /\ \E id \in SlotArgs : \E r \in {delete_adhoc_slot(id)} : Call(r)

ReassignSlot ==
    /\ ops < MaxOps
    /\ \E id \in SlotArgs, m \in MealIds, mt \in MealTypeArgs :
        \E r \in {reassign_slot(id, m, mt)} : Call(r)

Next ==
    \/ Generate
    \/ GenerateWeek
    \/ Regenerate
    \/ SwitchTemplate
    \/ SetOverride
    \/ ClearOverride
    \/ Complete
    \/ Uncomplete
    \/ AddAdhocSlot
    \/ DeleteAdhocSlot
    \/ ReassignSlot

Spec == Init /\ [][Next]_vars

----------------------------------------------------------------------------
(* Two generate requests in flight together: services/weekly.py 125-202.
   Each request runs in a session of its own; the statements of one request
   interleave with those of the other at every await. *)

\* the Mondays the requests ask for
ConcWeekArgs == {7, 14}

\* the request arrives with its user and its week
BeginGenerate(q) ==
    /\ calls[q].pc = "idle"
    /\ \E u \in Users, ws \in ConcWeekArgs :
          calls' = [calls EXCEPT ![q] = [pc |-> "check", user_id |-> u,
                                         week_start_date |-> ws,
                                         res |-> NULLTEXT,
                                         read_slots |-> {}, day_seq |-> <<>>]]
    /\ UNCHANGED <<instances, days, slots, round_robin_state, today, ops,
                   last, Rotation>>

\* the existence check and the week plan lookup, lines 132-145
CheckExisting(q) ==
    LET c == calls[q]
    IN  /\ c.pc = "check"
        /\ calls' = [calls EXCEPT ![q] =
              IF get_weekly_instance_by_week_start(c.week_start_date, c.user_id) # {}
              THEN [c EXCEPT !.pc = "failed", !.res = "already exists"]
              ELSE IF get_default_week_plan(c.user_id) = {}
              THEN [c EXCEPT !.pc = "failed", !.res = "no default week plan"]
              ELSE [c EXCEPT !.pc = "insert"]]
        /\ UNCHANGED <<instances, days, slots, round_robin_state, today, ops,
                       last, Rotation>>

\* db.add(instance) and the flush, lines 147-154: the unique constraint on
\* (user_id, week_start_date) refuses a second row with IntegrityError, and
\* the request ends there with nothing written
InsertInstance(q) ==
    LET c == calls[q]
        week_plan == CHOOSE wp \in get_default_week_plan(c.user_id) : TRUE
        instance == [id |-> Cardinality(instances) + 1,
                     week_plan_id |-> week_plan,
                     week_start_date |-> c.week_start_date,
                     user_id |-> c.user_id]
    IN  /\ c.pc = "insert"
        /\ IF get_weekly_instance_by_week_start(c.week_start_date, c.user_id) # {}
           THEN /\ calls' = [calls EXCEPT ![q] =
                                [c EXCEPT !.pc = "failed", !.res = "IntegrityError"]]
                /\ UNCHANGED instances
           ELSE /\ instances' = instances \cup {instance}
                /\ calls' = [calls EXCEPT ![q] = [c EXCEPT !.pc = "days"]]
        /\ UNCHANGED <<days, slots, round_robin_state, today, ops, last, Rotation>>

\* the days and slots of the inserted instance, lines 156-202
GenerateRest(q) ==
    LET c == calls[q]
    IN  /\ c.pc = "days"
        /\ \E instance \in get_weekly_instance_by_week_start(c.week_start_date,
                                                            c.user_id) :
              LET gen == GenerateDays(0, instance, instance.week_plan_id, days,
                                      [slots |-> slots, rrs |-> round_robin_state])
              IN  /\ days' = gen.days
                  /\ slots' = gen.slots
                  /\ round_robin_state' = gen.rrs
        /\ calls' = [calls EXCEPT ![q] = [c EXCEPT !.pc = "done", !.res = "ok"]]
        /\ UNCHANGED <<instances, today, ops, last, Rotation>>

\* the answer is sent and the request slot is free for the next request
EndGenerate(q) ==
    /\ calls[q].pc \in {"done", "failed"}
    /\ ops < MaxOps
    /\ ops' = ops + 1
    /\ calls' = [calls EXCEPT ![q] = NoCalls[q]]
    /\ UNCHANGED <<instances, days, slots, round_robin_state, today, last,
                   Rotation>>

NextConc ==
    \/ \E q \in Requests : BeginGenerate(q)
    \/ \E q \in Requests : CheckExisting(q)
    \/ \E q \in Requests : InsertInstance(q)
    \/ \E q \in Requests : GenerateRest(q)
    \/ \E q \in Requests : EndGenerate(q)

SpecConc == Init /\ [][NextConc]_vars

----------------------------------------------------------------------------
(* A regenerate request in flight beside completions and reassignments:
   services/weekly.py 509-558. The request loads the days and their slots,
   assigns slot.meal_id on the loaded objects, and the flush at the end sends
   one UPDATE per slot whose meal_id it changed. No row is locked and no
   version is compared, so calls of other requests fall between the two. *)

\* one regenerate request is in flight at a time
RegenerateRequests == {"a"}

\* the instance, its days and their slots are loaded, lines 509-530
RegenerateRead(q) ==
    /\ calls[q].pc = "idle"
    /\ ops < MaxOps
    /\ \E u \in Users, d \in RegenerateArgs :
          /\ get_week_instance(u, d) # {}
          /\ \E day_seq \in DayOrders(d, u) :
                calls' = [calls EXCEPT ![q] =
                             [pc |-> "loaded", user_id |-> u,
                              week_start_date |-> get_week_start_date(d),
                              res |-> NULLTEXT,
                              read_slots |-> slots, day_seq |-> day_seq]]
    /\ UNCHANGED <<instances, days, slots, round_robin_state, today, ops,
                   last, Rotation>>

\* the rows the flush of the request updates: the meal_id the loop assigned,
\* for every loaded slot whose meal_id it changed, written by id onto the row
\* as it is now
FlushMeals(read_slots, regenerated, current) ==
    {IF \E old \in read_slots, new \in regenerated :
            old.id = row.id /\ new.id = row.id /\ new.meal_id # old.meal_id
     THEN [row EXCEPT !.meal_id =
              (CHOOSE new \in regenerated : new.id = row.id).meal_id]
     ELSE row : row \in current}

\* the loop over the loaded days and slots and the flush, lines 517-557
RegenerateWrite(q) ==
    LET c == calls[q]
        regen == RegenerateDays(c.day_seq, [slots |-> c.read_slots,
                                            rrs |-> round_robin_state])
    IN  /\ c.pc = "loaded"
        /\ slots' = FlushMeals(c.read_slots, regen.slots, slots)
        /\ round_robin_state' = regen.rrs
        /\ ops' = ops + 1
        /\ calls' = [calls EXCEPT ![q] = NoCalls[q]]
        /\ UNCHANGED <<instances, days, today, last, Rotation>>

NextRace ==
    \/ Generate
    \/ Complete
    \/ ReassignSlot
    \/ \E q \in RegenerateRequests : RegenerateRead(q)
    \/ \E q \in RegenerateRequests : RegenerateWrite(q)

SpecRace == Init /\ [][NextRace]_vars

----------------------------------------------------------------------------
(* Two get_next_meal_for_type calls in flight: every await of the function is
   a step of its own, and the sessions read committed rows *)

\* the calls in flight for the meal type
InFlight(mt) ==
    Cardinality({q \in Requests : /\ calls[q].pc # "idle"
                                  /\ calls[q].meal_type_id = mt})

\* the meals and the pointer are read and the next meal is computed
SelectMeal(q, mt) ==
    LET ml   == get_meals_for_type(meals, links, mt)
        meal == SelectNextMeal(ml, get_round_robin_state(round_robin_state, mt))
    IN  /\ calls[q].pc = "idle"
        /\ Len(hist[mt]) + InFlight(mt) < MaxCalls
        /\ meal # NULL
        /\ calls' = [calls EXCEPT ![q] = [pc |-> "selected",
                                          meal_type_id |-> mt,
                                          meal |-> meal]]
        /\ UNCHANGED <<meals, links, round_robin_state, hist, fresh, last,
                       instances, days, slots, today, ops>>

\* update_round_robin_state looks the row up again
LookupState(q) ==
    /\ calls[q].pc = "selected"
    /\ calls' = [calls EXCEPT ![q] =
                    [pc |-> "looked_up",
                     meal_type_id |-> calls[q].meal_type_id,
                     meal |-> calls[q].meal,
                     has_row |-> get_round_robin_state(
                                     round_robin_state,
                                     calls[q].meal_type_id) # {}]]
    /\ UNCHANGED <<meals, links, round_robin_state, hist, fresh, last,
                   instances, days, slots, today, ops>>

\* the flush: the row found is updated; a row not found is inserted, and the
\* insert fails on pk_round_robin_state when another call has inserted it since
StoreState(q) ==
    LET c      == calls[q]
        exists == get_round_robin_state(round_robin_state, c.meal_type_id) # {}
        failed == ~c.has_row /\ exists
    IN  /\ c.pc = "looked_up"
        /\ round_robin_state' =
               IF failed THEN round_robin_state
               ELSE update_round_robin_state(round_robin_state,
                                             c.meal_type_id, c.meal)
        /\ hist' = IF failed THEN hist
                   ELSE [hist EXCEPT ![c.meal_type_id] = Append(@, c.meal)]
        /\ last' = [op |-> "next", mt |-> c.meal_type_id,
                    ret |-> IF failed THEN NULL ELSE c.meal,
                    res |-> IF failed THEN "IntegrityError" ELSE "ok"]
        /\ calls' = [calls EXCEPT ![q] = NoCalls[q]]
        /\ UNCHANGED <<meals, links, fresh, instances, days, slots, today, ops>>

NextPointer ==
    \/ \E q \in Requests, mt \in RotatedTypes : SelectMeal(q, mt)
    \/ \E q \in Requests : LookupState(q)
    \/ \E q \in Requests : StoreState(q)

SpecPointer == InitRR /\ [][NextPointer]_vars

----------------------------------------------------------------------------
(* Properties of the rotation *)

Candidates(mt) == get_meals_for_type(meals, links, mt)

Count(seq, m) == Cardinality({i \in 1..Len(seq) : seq[i] = m})

\* C2: with the candidates of a meal type unchanged and N >= 1 of them, k*N
\* consecutive get_next_meal_for_type calls that start from a reset (absent)
\* pointer select every candidate exactly k times.
C2_Fairness ==
    \A mt \in MealTypes :
        LET ml == Candidates(mt)
            N  == Len(ml)
        IN  (fresh[mt] /\ N >= 1 /\ Len(hist[mt]) % N = 0)
            => \A i \in 1..N : Count(hist[mt], ml[i]) = Len(hist[mt]) \div N

C2_Witness ==
    \E mt \in MealTypes :
        /\ fresh[mt]
        /\ Len(Candidates(mt)) = 3
        /\ Len(hist[mt]) = 6

\* C3: get_next_meal_for_type returns nothing and writes no pointer when the type
\* has no candidates; the only candidate when there is one; candidate[0] when the
\* pointer row is absent or NULL; candidate[(i+1) mod N] when the pointer is the
\* candidate at index i. The pointer equals the returned meal afterwards, and a
\* run replayed from a reset pointer is the cyclic sequence of the candidates.
C3_NextItem ==
    /\ last.op = "next" =>
          LET ml == Candidates(last.mt)
              N  == Len(ml)
              b  == Pointer(last.before, last.mt)
          IN  /\ N = 0 => last.ret = NULL /\ round_robin_state = last.before
              /\ N = 1 => last.ret = ml[1]
              /\ (N >= 1 /\ (~b.has_row \/ b.last_meal_id = NULL)) => last.ret = ml[1]
              /\ \A i \in 1..N :
                    (b.has_row /\ b.last_meal_id = ml[i]) => last.ret = ml[(i % N) + 1]
              /\ last.ret # NULL =>
                    Pointer(round_robin_state, last.mt) =
                        [has_row |-> TRUE, last_meal_id |-> last.ret]
    /\ \A mt \in MealTypes :
          fresh[mt] =>
            \A i \in 1..Len(hist[mt]) :
                hist[mt][i] = Candidates(mt)[((i - 1) % Len(Candidates(mt))) + 1]

C3_Witness ==
    /\ last.op = "next"
    /\ Len(Candidates(last.mt)) = 3
    /\ Pointer(last.before, last.mt) =
           [has_row |-> TRUE, last_meal_id |-> Candidates(last.mt)[3]]
    /\ last.ret = Candidates(last.mt)[1]

\* C4: when the pointer references a meal that is no longer a candidate of the
\* type and the type has candidates, get_next_meal_for_type returns candidate[0]
\* and sets the pointer to it; the rotation continues with candidate[1 mod N].
C4_GracefulRestart ==
    last.op = "next" =>
        LET ml == Candidates(last.mt)
            N  == Len(ml)
            b  == Pointer(last.before, last.mt)
        IN  (/\ N >= 1
             /\ b.has_row
             /\ b.last_meal_id # NULL
             /\ \A i \in 1..N : ml[i] # b.last_meal_id)
            => /\ last.ret = ml[1]
               /\ Pointer(round_robin_state, last.mt).last_meal_id = ml[1]
               /\ peek_next_meal_for_type(meals, links, round_robin_state, last.mt)
                      = ml[(1 % N) + 1]

C4_Witness ==
    /\ last.op = "next"
    /\ Len(Candidates(last.mt)) = 2
    /\ Pointer(last.before, last.mt).has_row
    /\ Pointer(last.before, last.mt).last_meal_id \in meals
    /\ \A i \in 1..2 :
          Candidates(last.mt)[i] # Pointer(last.before, last.mt).last_meal_id
    /\ last.ret = Candidates(last.mt)[1]

----------------------------------------------------------------------------
(* Properties of the weekly plan lifecycle *)

\* dates and ids a caller may pass, known to the tables or not
AnyDates == {6, 7, 9, 14, 15}
AnyUsers == Users \cup {"u3"}

\* the InstanceDay rows a slot belongs to
DayOfSlot(s) ==
    {d \in days : d.weekly_plan_instance_id = s.weekly_plan_instance_id
                  /\ d.date = s.date}

\* C1: regenerate_weekly_plan leaves every completed slot as it was (meal,
\* completion status, completion timestamp), creates and deletes no instance,
\* day or slot, leaves every slot of an override day as it was, and changes
\* nothing but the meal_id of uncompleted slots of days that are no override.
C1_RegenerateFrame ==
    \A u \in AnyUsers, d \in AnyDates :
        \A day_seq \in DayOrders(d, u) :
            \A r \in {regenerate_weekly_plan(d, u, day_seq)} :
                /\ r.instances = instances
                /\ r.days = days
                /\ {t.id : t \in r.slots} = {s.id : s \in slots}
                /\ Cardinality(r.slots) = Cardinality(slots)
                /\ \A s \in slots : \A t \in r.slots :
                      t.id = s.id =>
                        /\ [t EXCEPT !.meal_id = s.meal_id] = s
                        /\ s.completion_status # NULLTEXT =>
                              /\ t.meal_id = s.meal_id
                              /\ t.completion_status = s.completion_status
                              /\ t.completed_at = s.completed_at
                        /\ (\E day \in DayOfSlot(s) : day.is_override) => t = s

\* a regenerate of a week that holds a completed slot gives another slot a new meal
C1_Witness ==
    \E u \in Users, d \in AnyDates :
        \E day_seq \in DayOrders(d, u) :
            \E r \in {regenerate_weekly_plan(d, u, day_seq)} :
                /\ r.res = "ok"
                /\ \E i \in get_weekly_instance_by_week_start(get_week_start_date(d), u) :
                      /\ \E s \in slots : /\ s.weekly_plan_instance_id = i.id
                                          /\ s.completion_status # NULLTEXT
                      /\ \E s \in slots : \E t \in r.slots :
                            /\ s.weekly_plan_instance_id = i.id
                            /\ t.id = s.id
                            /\ t.meal_id # s.meal_id

\* the week plans a caller may name, known or not
AnyWeekPlans == {NULL} \cup WeekPlans \cup {3}

\* the meals that n consecutive get_next_meal_for_type calls return
RECURSIVE NextMeals(_, _, _)
NextMeals(rrs, mt, n) ==
    IF n = 0 THEN <<>>
    ELSE LET res == get_next_meal_for_type(meals, links, rrs, mt)
         IN  <<res.meal>> \o NextMeals(res.rrs, mt, n - 1)

\* how many slots of S of the slot's meal type come no later than the slot,
\* by date and then position
RankInType(S, s) ==
    Cardinality({t \in S : /\ t.meal_type_id = s.meal_type_id
                           /\ \/ t.date < s.date
                              \/ t.date = s.date /\ t.position <= s.position})

\* what C5 says of the rows one successful call added for the week of monday
GeneratedAsMapped(u, monday, wp, r, new_days, new_slots, expected) ==
    /\ instances \subseteq r.instances
    /\ days \subseteq r.days
    /\ slots \subseteq r.slots
    /\ Cardinality(r.slots) = Cardinality({s.id : s \in r.slots})
    /\ Cardinality(r.instances \ instances) = 1
    /\ \A i \in r.instances \ instances :
        /\ i.user_id = u
        /\ i.week_start_date = monday
        /\ i.id \notin {x.id : x \in instances}
        /\ wp # NULL => i.week_plan_id = wp
        /\ \A d \in new_days :
              /\ d.weekly_plan_instance_id = i.id
              /\ d.date \in monday..(monday + 6)
        /\ \A s \in new_slots :
              /\ s.weekly_plan_instance_id = i.id
              /\ \E d \in new_days : d.date = s.date
              /\ s.completion_status = NULLTEXT
              /\ s.completed_at = NULL
              /\ s.meal_id = expected[s.meal_type_id][RankInType(new_slots, s)]
        /\ \A k \in 0..6 :
              LET mapped == {wpd \in WeekPlanDays[i.week_plan_id] : wpd.weekday = k}
                  rows   == {d \in new_days : d.date = monday + k}
              IN  /\ mapped = {} => rows = {}
                  /\ mapped # {} =>
                       /\ Cardinality(rows) = 1
                       /\ \A d \in rows :
                           /\ ~d.is_override
                           /\ \E wpd \in mapped :
                                d.day_template_id = wpd.day_template_id
                           /\ {[position |-> s.position,
                                meal_type_id |-> s.meal_type_id] :
                                  s \in SlotsOfDay(new_slots, i.id, d.date)}
                                = TemplateSlots[d.day_template_id]
                           /\ Cardinality(SlotsOfDay(new_slots, i.id, d.date))
                                = Cardinality(TemplateSlots[d.day_template_id])
    /\ wp = 2 => /\ Cardinality(new_days) = 7
                 /\ Cardinality(new_slots) = 14

\* C5: a successful generate_weekly_plan adds exactly one instance; one day row
\* (is_override false, the mapped day template) per weekday the week plan maps
\* and none for the others; per day exactly one slot per slot definition of the
\* template, with its position and meal type, no completion, and the meal the
\* rotation returns for the type (call after call, in date and position order).
\* Week plan 2 (seven days of a two-slot template) gives 7 days and 14 slots.
C5_Generate ==
    \A u \in Users, ws \in WeekStartArgs, wp \in {NULL} \cup WeekPlans :
        \A r \in {generate_weekly_plan(u, ws, wp)} :
            r.res = "ok" =>
              \A new_days \in {r.days \ days}, new_slots \in {r.slots \ slots},
                 expected \in {[mt \in MealTypes |->
                    NextMeals(round_robin_state, mt,
                              Cardinality({s \in r.slots \ slots :
                                             s.meal_type_id = mt}))]} :
                  GeneratedAsMapped(u, IF ws = NULL THEN get_next_monday(today) ELSE ws,
                                    wp, r, new_days, new_slots, expected)

\* a user who holds a week already generates another week from week plan 2,
\* and the rotation of a type with two meals wraps around within the new week
C5_Witness ==
    \E u \in Users, ws \in AnyDates :
        \E r \in {generate_weekly_plan(u, ws, 2)} :
            /\ r.res = "ok"
            /\ \E i \in instances : i.user_id = u
            /\ \E s, t \in r.slots \ slots :
                  /\ s.date < t.date
                  /\ s.meal_type_id = t.meal_type_id
                  /\ s.meal_id # t.meal_id

\* C6: generate_weekly_plan fails with "must be a Monday" for a week start that
\* is no Monday, with "already exists" when the user has an instance for the
\* week, and with "no default week plan" when no week plan id is given, the
\* user has no default plan and no earlier check fails. A failing call leaves
\* instances, days, slots and rotation pointers as they were, so a second call
\* for a generated (user, week) is refused and the week keeps its day rows,
\* one per date.
C6_GenerateFailures ==
    /\ \A u \in AnyUsers, ws \in {NULL} \cup AnyDates, wp \in {NULL, 1, 3} :
        \A r \in {generate_weekly_plan(u, ws, wp)} :
            LET monday == IF ws = NULL THEN get_next_monday(today) ELSE ws
                exists == \E i \in instances : /\ i.user_id = u
                                               /\ i.week_start_date = monday
            IN  /\ Weekday(monday) # 0 => r.res = "must be a Monday"
                /\ exists => r.res = "already exists"
                /\ (/\ Weekday(monday) = 0
                    /\ ~exists
                    /\ wp = NULL
                    /\ \A p \in WeekPlans : ~(WeekPlanIsDefault[p] /\ WeekPlanOwner[p] = u))
                   => r.res = "no default week plan"
                /\ r.res # "ok" =>
                      /\ r.instances = instances
                      /\ r.days = days
                      /\ r.slots = slots
                      /\ r.rrs = round_robin_state
    /\ \A d, e \in days :
          (d.weekly_plan_instance_id = e.weekly_plan_instance_id /\ d.date = e.date)
            => d = e

\* a generated week for which a second call is refused, in a state where a call
\* without a default plan and a call for a Wednesday are refused too
C6_Witness ==
    \E i \in instances :
        /\ \E d \in days : d.weekly_plan_instance_id = i.id
        /\ round_robin_state # {}
        /\ generate_weekly_plan(i.user_id, i.week_start_date, NULL).res
               = "already exists"
        /\ \E u \in Users :
               generate_weekly_plan(u, NULL, NULL).res = "no default week plan"
        /\ generate_weekly_plan(i.user_id, i.week_start_date + 2, NULL).res
               = "must be a Monday"

\* C7: no two rows of weekly_plan_slot share (weekly_plan_instance_id, date,
\* position), in every state that generate, regenerate, switch, override,
\* clear, ad-hoc add and delete, reassign, complete and uncomplete calls reach.
C7_SlotPositionUnique ==
    \A s, t \in slots :
        (/\ s.weekly_plan_instance_id = t.weekly_plan_instance_id
         /\ s.date = t.date
         /\ s.position = t.position) => s.id = t.id /\ s = t

\* an ad-hoc slot stands next to a template slot of its day, and restoring the
\* template of that day is refused
C7_Witness ==
    \E s, t \in slots :
        /\ s.weekly_plan_instance_id = t.weekly_plan_instance_id
        /\ s.date = t.date
        /\ s.is_adhoc
        /\ ~t.is_adhoc
        /\ clear_day_override(s.weekly_plan_instance_id, s.date).res = "IntegrityError"

\* C8: no two instances share (user_id, week_start_date) and every
\* week_start_date is a Monday; regenerate_weekly_plan and get_week_instance
\* take any date, act on the week of that date's Monday and add no instance.
C8_InstanceUnique ==
    /\ \A i, j \in instances :
          (i.user_id = j.user_id /\ i.week_start_date = j.week_start_date) => i = j
    /\ \A i \in instances : Weekday(i.week_start_date) = 0
    /\ \A u \in AnyUsers, d \in AnyDates :
          /\ Cardinality(get_week_instance(u, d)) <= 1
          /\ \A i \in get_week_instance(u, d) :
                /\ i.user_id = u
                /\ i.week_start_date <= d
                /\ d <= i.week_start_date + 6
          /\ \A day_seq \in DayOrders(d, u) :
                \A r \in {regenerate_weekly_plan(d, u, day_seq)} :
                    /\ r.instances = instances
                    /\ r.res = "ok" <=> get_week_instance(u, d) # {}
                    /\ r = regenerate_weekly_plan(d - Weekday(d), u, day_seq)

\* two users hold the same week, one of them holds a second week, and a
\* regenerate for a Wednesday acts on a held week
C8_Witness ==
    \E i, j, k \in instances :
        /\ i.user_id # j.user_id
        /\ i.week_start_date = j.week_start_date
        /\ k.user_id = i.user_id
        /\ k.week_start_date # i.week_start_date
        /\ \E day_seq \in DayOrders(i.week_start_date + 2, i.user_id) :
              regenerate_weekly_plan(i.week_start_date + 2, i.user_id, day_seq).res = "ok"

\* ids a caller may pass, known to the tables or not
AnyMealIds == MealIds \cup {4}
AnyMealTypes == {NULL} \cup MealTypes \cup {4}
AnySlotIds == SlotArgs \cup {99}

\* C9: a successful reassign_slot gives the slot the given meal, the given meal
\* type if one is given and its own otherwise, is_manual_override TRUE, and no
\* completion status and timestamp even if it was completed; id, date, position
\* and is_adhoc of the slot stay, and so does every other row.
C9_Reassign ==
    \A s \in slots, m \in AnyMealIds, mt \in AnyMealTypes :
        \A r \in {reassign_slot(s.id, m, mt)} :
            r.res = "ok" =>
                /\ r.instances = instances
                /\ r.days = days
                /\ r.rrs = round_robin_state
                /\ Cardinality({t \in r.slots : t.id = s.id}) = 1
                /\ \A t \in r.slots :
                      t.id = s.id =>
                        /\ r.slots \ {t} = slots \ {s}
                        /\ t.meal_id = m
                        /\ mt # NULL => t.meal_type_id = mt
                        /\ mt = NULL => t.meal_type_id = s.meal_type_id
                        /\ t.is_manual_override
                        /\ t.completion_status = NULLTEXT
                        /\ t.completed_at = NULL
                        /\ t.weekly_plan_instance_id = s.weekly_plan_instance_id
                        /\ t.date = s.date
                        /\ t.position = s.position
                        /\ t.is_adhoc = s.is_adhoc

\* a completed slot is reassigned to a meal of another meal type
C9_Witness ==
    \E s \in slots, m \in MealIds, mt \in MealTypes :
        /\ s.completion_status # NULLTEXT
        /\ s.completed_at # NULL
        /\ mt # s.meal_type_id
        /\ m # s.meal_id
        /\ reassign_slot(s.id, m, mt).res = "ok"

\* C10: reassign_slot returns NOT_FOUND for an unknown slot id; PAST_DATE for a
\* slot dated before today, whatever the meal; MEAL_NOT_FOUND for a slot of
\* today or later and an unknown meal; MEAL_TYPE_MISMATCH for a slot of today or
\* later, a known meal and a target meal type (the given one, else the slot's)
\* the meal is not linked to; a slot dated today with a linked meal is
\* accepted. A call that fails leaves every slot row as it was.
C10_ReassignFailures ==
    \A id \in AnySlotIds, m \in AnyMealIds, mt \in AnyMealTypes :
        \A r \in {reassign_slot(id, m, mt)} :
            /\ (\A s \in slots : s.id # id) => r.res = "NOT_FOUND"
            /\ \A s \in slots :
                  s.id = id =>
                    LET effective == IF mt # NULL THEN mt ELSE s.meal_type_id
                        linked    == <<m, effective>> \in links
                    IN  /\ s.date < today => r.res = "PAST_DATE"
                        /\ (s.date >= today /\ m \notin meals)
                              => r.res = "MEAL_NOT_FOUND"
                        /\ (s.date >= today /\ m \in meals
                              /\ effective # NULL /\ ~linked)
                              => r.res = "MEAL_TYPE_MISMATCH"
                        /\ (s.date = today /\ m \in meals /\ linked)
                              => r.res = "ok"
            /\ r.res # "ok" =>
                  /\ r.slots = slots
                  /\ r.instances = instances
                  /\ r.days = days
                  /\ r.rrs = round_robin_state

\* a slot of yesterday and a changed slot of today: the first is refused as
\* past, the second is refused for an unknown meal and for a meal of another
\* type, and accepted for a meal of its type
C10_Witness ==
    \E s, t \in slots :
        /\ s.date = today - 1
        /\ t.date = today
        /\ t.is_manual_override
        /\ \E m \in MealIds : reassign_slot(s.id, m, NULL).res = "PAST_DATE"
        /\ reassign_slot(t.id, 4, NULL).res = "MEAL_NOT_FOUND"
        /\ \E m \in MealIds : reassign_slot(t.id, m, NULL).res = "MEAL_TYPE_MISMATCH"
        /\ \E m \in MealIds : reassign_slot(t.id, m, NULL).res = "ok"
        /\ reassign_slot(99, t.meal_id, NULL).res = "NOT_FOUND"

\* ids and dates of day records a caller may pass, known or not
AnyInstanceIds == InstanceArgs \cup {99}
AnyDayDates == {7, 8, 9, 14}

\* the pointers after n more get_next_meal_for_type calls for the meal type
RECURSIVE AfterNext(_, _, _)
AfterNext(rrs, mt, n) ==
    IF n = 0 THEN rrs
    ELSE AfterNext(get_next_meal_for_type(meals, links, rrs, mt).rrs, mt, n - 1)

\* the pointers after count[mt] more calls for every meal type mt of the set
RECURSIVE AfterNextAll(_, _, _)
AfterNextAll(rrs, types, count) ==
    IF types = {} THEN rrs
    ELSE LET mt == CHOOSE x \in types : TRUE
         IN  AfterNextAll(AfterNext(rrs, mt, count[mt]), types \ {mt}, count)

\* per meal type, the slot definitions of the template
DefsPerType(template_id) ==
    [mt \in MealTypes |->
        Cardinality({ts \in TemplateSlots[template_id] : ts.meal_type_id = mt})]

\* per meal type, the rows of S
SlotsPerType(S) ==
    [mt \in MealTypes |-> Cardinality({s \in S : s.meal_type_id = mt})]

\* per meal type, the slots a regenerate of the instance redraws: uncompleted
\* slots at a template position of a day that is no override
RedrawnPerType(instance_id) ==
    [mt \in MealTypes |->
        Cardinality({s \in slots :
            /\ s.weekly_plan_instance_id = instance_id
            /\ s.completion_status = NULLTEXT
            /\ \E d \in DayOfSlot(s) :
                  /\ ~d.is_override
                  /\ d.day_template_id # NULL
                  /\ \E ts \in TemplateSlots[d.day_template_id] :
                        ts.position = s.position /\ ts.meal_type_id = mt})]

\* C11: reassign_slot, create_adhoc_slot, delete_adhoc_slot, set_day_override,
\* complete_slot and uncomplete_slot leave every round_robin_state row as it
\* was, whether they succeed or fail. generate, regenerate, switch and clear
\* leave the rows as they were when they fail and otherwise as the
\* get_next_meal_for_type calls for their slots leave them, so deleting slots
\* moves no pointer back.
C11_LedgerFrame ==
    /\ \A id \in AnySlotIds :
          /\ \A m \in AnyMealIds, mt \in AnyMealTypes :
                reassign_slot(id, m, mt).rrs = round_robin_state
          /\ delete_adhoc_slot(id).rrs = round_robin_state
          /\ uncomplete_slot(id).rrs = round_robin_state
          /\ \A st \in CompletionStatuses :
                complete_slot(id, st).rrs = round_robin_state
    /\ \A d \in AnyDayDates, m \in AnyMealIds :
          \A first \in IF m \in MealIds THEN FirstMealTypes(m) ELSE {NULL} :
              create_adhoc_slot(d, m, first).rrs = round_robin_state
    /\ \A i \in AnyInstanceIds, d \in AnyDayDates :
          /\ \A reason \in {NULLTEXT, "party"} :
                set_day_override(i, d, reason).rrs = round_robin_state
          /\ \A t \in DayTemplates \cup {3} :
                \A r \in {switch_day_template(i, d, t)} :
                    r.rrs = IF r.res = "ok"
                            THEN AfterNextAll(round_robin_state, MealTypes,
                                              DefsPerType(t))
                            ELSE round_robin_state
          /\ \A r \in {clear_day_override(i, d)} :
                r.rrs = IF r.res = "ok"
                        THEN AfterNextAll(
                                 round_robin_state, MealTypes,
                                 DefsPerType((CHOOSE x \in get_instance_day(i, d) :
                                                 TRUE).day_template_id))
                        ELSE round_robin_state
    /\ \A u \in Users, ws \in WeekStartArgs, wp \in WeekPlanArgs :
          \A r \in {generate_weekly_plan(u, ws, wp)} :
              r.rrs = IF r.res = "ok"
                      THEN AfterNextAll(round_robin_state, MealTypes,
                                        SlotsPerType(r.slots \ slots))
                      ELSE round_robin_state
    /\ \A u \in Users, d \in RegenerateArgs :
          \A day_seq \in DayOrders(d, u) :
              \A r \in {regenerate_weekly_plan(d, u, day_seq)} :
                  r.rrs = IF r.res = "ok"
                          THEN AfterNextAll(
                                   round_robin_state, MealTypes,
                                   RedrawnPerType((CHOOSE x \in get_week_instance(u, d) :
                                                      TRUE).id))
                          ELSE round_robin_state

\* pointers exist, a completed slot and an ad-hoc slot exist, and each of the
\* six calls succeeds
C11_Witness ==
    /\ round_robin_state # {}
    /\ \E s, t \in slots :
          /\ s.is_adhoc
          /\ t.completion_status # NULLTEXT
          /\ delete_adhoc_slot(s.id).res = "ok"
          /\ uncomplete_slot(t.id).res = "ok"
          /\ complete_slot(s.id, "skipped").res = "ok"
          /\ \E m \in MealIds : reassign_slot(s.id, m, NULL).res = "ok"
          /\ \E m \in MealIds : create_adhoc_slot(s.date, m, NULL).res = "ok"
          /\ set_day_override(t.weekly_plan_instance_id, t.date, "party").res = "ok"
          /\ \E x \in SlotsOfDay(slots, t.weekly_plan_instance_id, t.date) :
                x.meal_id # NULL /\ ~x.is_adhoc

\* what C12 and C13 say of the slots a day holds after its template was
\* applied: one per slot definition, with its position and meal type, plain
\* and uncompleted, and the meal the rotation returns from the pointers rrs
DaySlotsAsTemplate(day_slots, template_id, rrs) ==
    LET count == DefsPerType(template_id)
        expected == [mt \in MealTypes |-> NextMeals(rrs, mt, count[mt])]
    IN  /\ {[position |-> s.position, meal_type_id |-> s.meal_type_id] :
               s \in day_slots} = TemplateSlots[template_id]
        /\ Cardinality(day_slots) = Cardinality(TemplateSlots[template_id])
        /\ \A s \in day_slots :
              /\ s.completion_status = NULLTEXT
              /\ s.completed_at = NULL
              /\ ~s.is_adhoc
              /\ s.meal_id = expected[s.meal_type_id][RankInType(day_slots, s)]

\* C12: a successful switch_day_template(instance, date, T) leaves the date
\* with exactly one slot per slot definition of T (its position and meal type,
\* no completion, not ad-hoc, the meal the rotation returns), whatever slots
\* the date held; the day row references T with is_override false and no
\* reason; no other row changes. Without the day row or the template it fails
\* and changes no slot and no pointer.
C12_SwitchTemplate ==
    \A i \in AnyInstanceIds, d \in AnyDayDates, t \in DayTemplates \cup {3} :
        \A r \in {switch_day_template(i, d, t)} :
            IF get_instance_day(i, d) = {} \/ t \notin DayTemplates
            THEN /\ r.res # "ok"
                 /\ r.slots = slots
                 /\ r.days = days
                 /\ r.rrs = round_robin_state
            ELSE /\ r.res = "ok"
                 /\ DaySlotsAsTemplate(SlotsOfDay(r.slots, i, d), t,
                                       round_robin_state)
                 /\ r.slots \ SlotsOfDay(r.slots, i, d)
                      = slots \ SlotsOfDay(slots, i, d)
                 /\ r.instances = instances
                 /\ \A x \in get_instance_day(i, d) :
                       /\ r.days \ days =
                            {[x EXCEPT !.day_template_id = t,
                                       !.is_override = FALSE,
                                       !.override_reason = NULLTEXT]} \ days
                       /\ days \ r.days \subseteq {x}
                       /\ \E y \in r.days :
                             /\ y.weekly_plan_instance_id = i
                             /\ y.date = d
                             /\ y.day_template_id = t
                             /\ ~y.is_override
                             /\ y.override_reason = NULLTEXT

\* a day that holds a completed slot and an ad-hoc slot is switched to another
\* template
C12_Witness ==
    \E x \in days :
        /\ \E s, a \in SlotsOfDay(slots, x.weekly_plan_instance_id, x.date) :
              s.completion_status # NULLTEXT /\ a.is_adhoc
        /\ \E t \in DayTemplates \ {x.day_template_id} :
              switch_day_template(x.weekly_plan_instance_id, x.date, t).res = "ok"

\* C13: a successful clear_day_override(instance, date) leaves the day row
\* with is_override false, no reason and the template it had, and the date
\* with exactly one slot per slot definition of that template (its position and
\* meal type, no completion, the meal the rotation returns), whatever the day
\* held before; set_day_override keeps the template, so clearing after it
\* restores the template's slot positions.
C13_ClearOverride ==
    \A i \in InstanceArgs, d \in AnyDayDates :
        /\ \A r \in {clear_day_override(i, d)} :
              r.res = "ok" =>
                  \A x \in get_instance_day(i, d) :
                      /\ {y \in r.days : /\ y.weekly_plan_instance_id = i
                                          /\ y.date = d} =
                            {[x EXCEPT !.is_override = FALSE,
                                       !.override_reason = NULLTEXT]}
                      /\ DaySlotsAsTemplate(SlotsOfDay(r.slots, i, d),
                                            x.day_template_id, round_robin_state)
        /\ \A r \in {set_day_override(i, d, "party")} :
              r.res = "ok" =>
                  \A x \in get_instance_day(i, d), y \in r.days :
                      (y.weekly_plan_instance_id = i /\ y.date = d)
                          => y.day_template_id = x.day_template_id

\* an overridden day holds an ad-hoc slot and clear_day_override succeeds
C13_Witness ==
    \E x \in days :
        /\ x.is_override
        /\ \E s \in SlotsOfDay(slots, x.weekly_plan_instance_id, x.date) :
              s.is_adhoc
        /\ clear_day_override(x.weekly_plan_instance_id, x.date).res = "ok"

InstanceDaysOf(user_id, target_date) ==
    {x \in days :
        /\ x.date = target_date
        /\ \E i \in instances : /\ i.id = x.weekly_plan_instance_id
                                /\ i.user_id = user_id}

\* C15: create_adhoc_slot for an owner, a date and a meal fails as not found
\* and creates no slot when the owner has no day row for the date (no instance
\* for the week, or a weekday the week plan leaves unmapped). On success it
\* adds exactly one slot: position one more than the largest position among
\* the date's slots, is_adhoc true, the given meal, no completion, meal type
\* the first one linked to the meal or none; every other row is unchanged.
C15_AddAdhoc ==
    \A u \in Users, d \in AnyDayDates, m \in AnyMealIds :
        \A first \in IF m \in MealIds THEN FirstMealTypes(m) ELSE {NULL} :
            \A r \in {create_adhoc_slot(d, m, first)} :
                /\ InstanceDaysOf(u, d) = {} =>
                      /\ r.res = "not found"
                      /\ r.slots = slots
                /\ r.res = "ok" =>
                      /\ slots \subseteq r.slots
                      /\ Cardinality(r.slots \ slots) = 1
                      /\ \A s \in r.slots \ slots :
                            /\ s.date = d
                            /\ s.position =
                                 MaxPosition(SlotsOfDay(slots,
                                     s.weekly_plan_instance_id, d)) + 1
                            /\ s.is_adhoc
                            /\ s.meal_id = m
                            /\ s.completion_status = NULLTEXT
                            /\ s.completed_at = NULL
                            /\ s.meal_type_id \in FirstMealTypes(m)
                            /\ s.id \notin {x.id : x \in slots}
                      /\ r.instances = instances
                      /\ r.days = days
                      /\ r.rrs = round_robin_state

\* an instance covers the week, the date has no day row, and create_adhoc_slot
\* succeeds for it
C15_Witness ==
    \E d \in AnyDayDates, m \in MealIds :
        /\ \A x \in days : x.date # d
        /\ \E i \in instances : i.week_start_date = get_week_start_date(d)
        /\ create_adhoc_slot(d, m, NULL).res = "ok"

\* the meal a completion request may name as the one eaten, or none
ActualMealArgs == {NULL} \cup MealIds

\* C16: complete_slot on an existing slot, for a status and an optional actual
\* meal, sets completion_status to the status and completed_at to a value that
\* is not null, stores the actual meal in actual_meal_id when one is given,
\* and changes no other field of the slot and no other row; on an id no slot
\* has it fails as not found and changes nothing.
C16_Complete ==
    \A id \in AnySlotIds, st \in CompletionStatuses, actual \in ActualMealArgs :
        \A r \in {complete_slot(id, st)} :
            LET found == {s \in slots : s.id = id}
            IN  /\ found = {} =>
                      /\ r.res = "not found"
                      /\ r.slots = slots
                /\ \A s \in found :
                      /\ r.res = "ok"
                      /\ \E row \in r.slots :
                            /\ r.slots = (slots \ {s}) \cup {row}
                            /\ row.completion_status = st
                            /\ row.completed_at # NULL
                            /\ actual # NULL => row.actual_meal_id = actual
                            /\ [row EXCEPT !.completion_status = NULLTEXT,
                                           !.completed_at = NULL,
                                           !.actual_meal_id = NULL]
                                 = [s EXCEPT !.completion_status = NULLTEXT,
                                             !.completed_at = NULL,
                                             !.actual_meal_id = NULL]
                /\ r.instances = instances
                /\ r.days = days
                /\ r.rrs = round_robin_state

\* an uncompleted slot is completed and its actual_meal_id stays empty
C16_Witness ==
    \E s \in slots :
        /\ s.completion_status = NULLTEXT
        /\ \A r \in {complete_slot(s.id, "followed")} :
              /\ r.res = "ok"
              /\ \E row \in r.slots \ slots :
                    row.completion_status = "followed" /\ row.actual_meal_id = NULL

\* what C17 says of uncomplete_slot in one state
UncompleteClears ==
    \A id \in AnySlotIds :
        \A r \in {uncomplete_slot(id)} :
            LET found == {s \in slots : s.id = id}
            IN  /\ found = {} =>
                      /\ r.res = "not found"
                      /\ r.slots = slots
                /\ \A s \in found :
                      /\ r.res = "ok"
                      /\ r.slots = (slots \ {s}) \cup
                            {[s EXCEPT !.completion_status = NULLTEXT,
                                       !.completed_at = NULL,
                                       !.actual_meal_id = NULL]}
                /\ r.instances = instances
                /\ r.days = days
                /\ r.rrs = round_robin_state

\* a step that completes the uncompleted slot with the id
CompletesSlot(id) ==
    /\ \E s \in slots : s.id = id /\ s.completion_status = NULLTEXT
    /\ \E st \in CompletionStatuses : slots' = complete_slot(id, st).slots
    /\ slots' # slots

C18_Peek ==
    /\ \A mt \in MealTypes :
          peek_next_meal_for_type(meals, links, round_robin_state, mt)
            = get_next_meal_for_type(meals, links, round_robin_state, mt).meal
    /\ last.op = "peek" =>
          /\ round_robin_state = last.before
          /\ last.ret = get_next_meal_for_type(meals, links, round_robin_state,
                                                last.mt).meal
          /\ Candidates(last.mt) = <<>> => last.ret = NULL

\* a preview on a pointer at the last of three meals returns the first, and
\* the pointer still names the last
C18_Witness ==
    /\ last.op = "peek"
    /\ Len(Candidates(last.mt)) = 3
    /\ Pointer(round_robin_state, last.mt) =
           [has_row |-> TRUE, last_meal_id |-> Candidates(last.mt)[3]]
    /\ last.ret = Candidates(last.mt)[1]

\* C19: a generate request for a week of the user that already has an
\* instance succeeds and is answered as a regeneration (200): no instance and
\* no day row is added or changed, completed slots keep their meal and
\* status, and only the meal of uncompleted slots may change.
C19_GenerateExisting ==
    \A u \in Users, ws \in {7, 14} :
        get_week_instance(u, ws) # {} =>
            \A r \in {generate_week(u, ws)} :
                /\ r.res = "ok"
                /\ r.status = 200
                /\ r.instances = instances
                /\ r.days = days
                /\ Cardinality(r.slots) = Cardinality(slots)
                /\ \A s \in slots :
                      \E t \in r.slots :
                          /\ [t EXCEPT !.meal_id = s.meal_id] = s
                          /\ s.completion_status # NULLTEXT => t = s

\* the user's week exists, with a completed and an uncompleted slot, and
\* generate_weekly_plan answers "already exists"
C19_Witness ==
    \E i \in instances :
        /\ generate_weekly_plan(i.user_id, i.week_start_date, NULL).res
             = "already exists"
        /\ \E s, t \in slots :
              /\ s.weekly_plan_instance_id = i.id
              /\ t.weekly_plan_instance_id = i.id
              /\ s.completion_status # NULLTEXT
              /\ t.completion_status = NULLTEXT
        /\ generate_week(i.user_id, i.week_start_date).status = 500

\* the rows a request's instance owns
RowsOfWeek(user_id, week_start_date) ==
    LET ids == {i.id : i \in get_weekly_instance_by_week_start(week_start_date,
                                                                user_id)}
    IN  [days  |-> {d \in days : d.weekly_plan_instance_id \in ids},
         slots |-> {s \in slots : s.weekly_plan_instance_id \in ids}]

\* C20: when two generate calls for the same user and week are in flight
\* together and both have ended, exactly one instance exists for the week, one
\* call has succeeded and the other has failed with "already exists" as a
\* later duplicate call does, and the week has the days and slots of one
\* generation only.
C20_ConcurrentGenerate ==
    \A p, q \in Requests :
        (/\ p # q
         /\ calls[p].pc \in {"done", "failed"}
         /\ calls[q].pc \in {"done", "failed"}
         /\ calls[p].user_id = calls[q].user_id
         /\ calls[p].week_start_date = calls[q].week_start_date
         /\ calls[p].res = "ok")
        => /\ Cardinality(get_weekly_instance_by_week_start(
                              calls[p].week_start_date, calls[p].user_id)) = 1
           /\ calls[q].res = "already exists"
           /\ generate_weekly_plan(calls[q].user_id, calls[q].week_start_date,
                                   NULL).res = calls[q].res
           /\ \A rows \in {RowsOfWeek(calls[p].user_id, calls[p].week_start_date)} :
                 /\ rows.days # {}
                 /\ \A x, y \in rows.days : x.date = y.date => x = y
                 /\ \A s, t \in rows.slots :
                       (s.date = t.date /\ s.position = t.position) => s = t

\* both calls passed the existence check, one has inserted the instance and
\* generated the week, and the other was refused by the unique constraint
C20_Witness ==
    \E p, q \in Requests :
        /\ calls[p].pc = "done"
        /\ calls[q].pc = "failed"
        /\ calls[q].res = "IntegrityError"
        /\ calls[p].user_id = calls[q].user_id
        /\ calls[p].week_start_date = calls[q].week_start_date
        /\ Cardinality(get_weekly_instance_by_week_start(
                           calls[p].week_start_date, calls[p].user_id)) = 1

\* the rows of a result that belong to other users than the owner
RowsOfOthers(t, owner) ==
    LET ids == {i.id : i \in {x \in t.instances : x.user_id # owner}}
    IN  [instances |-> {x \in t.instances : x.user_id # owner},
         days  |-> {d \in t.days : d.weekly_plan_instance_id \in ids},
         slots |-> {x \in t.slots : x.weekly_plan_instance_id \in ids},
         rrs   |-> {x \in t.rrs : x.user_id # owner}]

\* the user whose instance holds the slot
SlotOwner(s) ==
    (CHOOSE i \in instances : i.id = s.weekly_plan_instance_id).user_id

\* C21: every lifecycle and completion call made by a user leaves the
\* instances, days, slots and pointers of every other user as they were; the
\* id of another user's slot or instance is not found for the caller; and
\* another user's instance for a week does not make the caller's generate for
\* that week fail as "already exists".
C21_OwnerScoped ==
    \A owner \in Users :
        /\ \A ws \in WeekStartArgs, wp \in WeekPlanArgs :
              \A r \in {generate_weekly_plan(owner, ws, wp)} :
                  /\ RowsOfOthers(r, owner) = RowsOfOthers(Tables, owner)
                  /\ get_week_instance(owner, ws) = {} => r.res # "already exists"
        /\ \A d \in RegenerateArgs :
              \A day_seq \in DayOrders(d, owner) :
                  RowsOfOthers(regenerate_weekly_plan(d, owner, day_seq), owner)
                    = RowsOfOthers(Tables, owner)
        /\ \A d \in AdhocDateArgs, m \in AdhocMealArgs :
              RowsOfOthers(create_adhoc_slot(d, m, NULL), owner)
                = RowsOfOthers(Tables, owner)
        /\ \A s \in {x \in slots : SlotOwner(x) # owner} :
              /\ complete_slot(s.id, "followed").res = "not found"
              /\ uncomplete_slot(s.id).res = "not found"
              /\ delete_adhoc_slot(s.id).res = "not found"
              /\ \A m \in MealIds : reassign_slot(s.id, m, NULL).res = "NOT_FOUND"
        /\ \A i \in {x \in instances : x.user_id # owner}, d \in DateArgs :
              /\ \A t \in DayTemplates :
                    switch_day_template(i.id, d, t).res # "ok"
              /\ set_day_override(i.id, d, "party").res # "ok"
              /\ clear_day_override(i.id, d).res # "ok"

\* a user holds an instance with a slot, and the completion call finds that
\* slot whoever makes the call
C21_Witness ==
    \E i \in instances, s \in slots, owner \in Users :
        /\ s.weekly_plan_instance_id = i.id
        /\ owner # i.user_id
        /\ complete_slot(s.id, "followed").res = "ok"

\* a step in which a regenerate request writes
RegenerateWrites(q) ==
    calls[q].pc = "loaded" /\ calls'[q].pc = "idle"

\* C22: a regenerate that runs beside complete_slot or reassign_slot on a slot
\* of its instance ends as some serial order of the two ends: its write
\* changes the meal of no slot that is completed when it writes, and of no
\* slot that was manually reassigned after the regenerate read it.
C22_RegenerateSerial ==
    [][\A q \in Requests :
          RegenerateWrites(q) =>
              \A s \in slots :
                  \A t \in {x \in slots' : x.id = s.id} :
                      /\ s.completion_status # NULLTEXT => t.meal_id = s.meal_id
                      /\ (/\ s.is_manual_override
                          /\ \E old \in calls[q].read_slots :
                                old.id = s.id /\ ~old.is_manual_override)
                         => t.meal_id = s.meal_id]_vars

\* a regenerate has loaded a slot as uncompleted, and the slot has been
\* completed since
C22_Witness ==
    \E q \in Requests :
        /\ calls[q].pc = "loaded"
        /\ \E s \in slots, old \in calls[q].read_slots :
              /\ old.id = s.id
              /\ old.completion_status = NULLTEXT
              /\ s.completion_status # NULLTEXT

\* C23: regenerate_weekly_plan gives a new meal only to slots that have no
\* completion status and are dated today or later: every slot dated before
\* today, uncompleted ones included, is after the call as it was before.
C23_RegeneratePast ==
    \A u \in Users, d \in RegenerateArgs :
        \A day_seq \in DayOrders(d, u) :
            \A r \in {regenerate_weekly_plan(d, u, day_seq)} :
                /\ \A s \in slots : s.date < today => s \in r.slots
                /\ \A s \in slots :
                      s \notin r.slots =>
                          /\ s.completion_status = NULLTEXT
                          /\ s.date >= today

\* an uncompleted slot dated before today, of a meal type with two meals, in
\* a week that regenerate_weekly_plan accepts
C23_Witness ==
    \E s \in slots, i \in instances :
        /\ s.weekly_plan_instance_id = i.id
        /\ s.date < today
        /\ s.completion_status = NULLTEXT
        /\ ~s.is_adhoc
        /\ Len(get_meals_for_type(meals, links, s.meal_type_id)) = 2
        /\ \E day_seq \in DayOrders(s.date, i.user_id) :
              regenerate_weekly_plan(s.date, i.user_id, day_seq).res = "ok"

\* the days today may be, a Monday (7, 14) and every other weekday
AnyTodays == 7..14

\* C24: a generate request without week_start_date targets the first Monday
\* strictly after today (seven days ahead on a Monday) and is answered as the
\* request that names that Monday; when the user's instance for that week
\* exists, the request regenerates that week and succeeds (200) with no
\* instance added.
C24_GenerateDefaultWeek ==
    /\ \A t \in AnyTodays :
          /\ Weekday(get_next_monday(t)) = 0
          /\ get_next_monday(t) > t
          /\ get_next_monday(t) <= t + 7
          /\ Weekday(t) = 0 => get_next_monday(t) = t + 7
    /\ \A u \in Users :
          \A r \in {generate_week(u, NULL)} :
              /\ r = generate_week(u, get_next_monday(today))
              /\ get_week_instance(u, get_next_monday(today)) # {} =>
                    /\ r.res = "ok"
                    /\ r.status = 200
                    /\ r.instances = instances
                    /\ r.days = days

\* the user's instance for the week of the next Monday exists and the
\* request without a date ends as a server error
C24_Witness ==
    \E i \in instances :
        /\ i.week_start_date = get_next_monday(today)
        /\ generate_weekly_plan(i.user_id, NULL, NULL).res = "already exists"
        /\ generate_week(i.user_id, NULL).status = 500

\* the meal was created after the candidate: a later timestamp, or the same
\* timestamp and a greater id
CreatedAfter(m, c) ==
    \/ CreatedAt[m] > CreatedAt[c]
    \/ CreatedAt[m] = CreatedAt[c] /\ m > c

\* the candidates of the type before the link that last names was made
BeforeLink(m, mt) == get_meals_for_type(meals, links \ {<<m, mt>>}, mt)

\* the linked meal stands at the end of the rotation of N + 1 candidates
AppendsToRotation(m, mt) ==
    LET old == BeforeLink(m, mt)
        N   == Len(old)
        rot == NextMeals(round_robin_state, mt, N + 2)
    IN  /\ Candidates(mt) = Append(old, m)
        /\ \A c \in MealIds : Count(SubSeq(rot, 1, N + 1), c) =
                                  IF \E i \in 1..(N + 1) : Candidates(mt)[i] = c
                                  THEN 1 ELSE 0
        /\ N >= 1 =>
              /\ \A i \in 1..(N + 1) : rot[i] = old[N] => rot[i + 1] = m
              /\ Pointer(round_robin_state, mt).last_meal_id = old[N] => rot[1] = m

\* C25: linking a meal created after every candidate of a meal type (a later
\* created_at, and also an equal one with a greater id) appends it to the
\* rotation: the candidates keep their order, the new meal is returned right
\* after the last of them, and the next N+1 get_next_meal_for_type calls return
\* each of the N+1 candidates exactly once, wherever the pointer stands.
C25_AppendToRotation ==
    last.op = "link" =>
        LET old == BeforeLink(last.meal, last.mt)
        IN  (\A i \in 1..Len(old) : CreatedAfter(last.meal, old[i]))
                => AppendsToRotation(last.meal, last.mt)

C25_Witness ==
    /\ last.op = "link"
    /\ Len(Candidates(last.mt)) >= 2
    /\ \A i \in 1..Len(Candidates(last.mt)) :
          Candidates(last.mt)[i] # last.meal
            => CreatedAt[last.meal] > CreatedAt[Candidates(last.mt)[i]]
    /\ Pointer(round_robin_state, last.mt).last_meal_id =
          Candidates(last.mt)[Len(Candidates(last.mt)) - 1]

\* C26: get_next_meal_for_type calls in flight together for one meal type act
\* like calls made one after another: the calls that returned left the pointer
\* where as many calls in a row leave it, no call failed, two successive
\* returns of a type with two or more meals differ, and the table holds at most
\* one row per owner and meal type.
C26_ConcurrentNext ==
    /\ \A mt \in RotatedTypes :
          LET n == Len(hist[mt])
          IN  /\ (n >= 1 /\ InFlight(mt) = 0) =>
                    Pointer(round_robin_state, mt) =
                        [has_row |-> TRUE,
                         last_meal_id |-> NextMeals({}, mt, n)[n]]
              /\ Len(Candidates(mt)) >= 2 =>
                    \A i \in 1..(n - 1) : hist[mt][i] # hist[mt][i + 1]
    /\ (last.op = "next") => last.res = "ok"
    /\ \A r1, r2 \in round_robin_state :
          (r1.user_id = r2.user_id /\ r1.meal_type_id = r2.meal_type_id)
              => r1 = r2

C26_Witness ==
    \E mt \in RotatedTypes :
        /\ Len(Candidates(mt)) >= 2
        /\ \A q \in Requests :
              /\ calls[q].pc = "selected"
              /\ calls[q].meal_type_id = mt
        /\ calls["a"].meal = calls["b"].meal

\* C27: in every reachable state a slot whose completion_status is null has a
\* null completed_at and a null actual_meal_id, and a slot whose
\* completion_status is not null has a completed_at that is not null.
C27_CompletionFields ==
    \A s \in slots :
        /\ s.completion_status = NULLTEXT =>
              /\ s.completed_at = NULL
              /\ s.actual_meal_id = NULL
        /\ s.completion_status # NULLTEXT => s.completed_at # NULL

C27_Witness ==
    /\ \E s \in slots : /\ s.completion_status \in CompletionStatuses
                         /\ s.completed_at = today
    /\ \E s \in slots : /\ s.completion_status = NULLTEXT
                         /\ s.is_manual_override

\* the overridden days of the tables that hold slots
OverriddenWithSlots(t_days, t_slots) ==
    {d \in t_days : /\ d.is_override
                    /\ SlotsOfDay(t_slots, d.weekly_plan_instance_id, d.date) # {}}

\* C28: a day with is_override set has no slots, in every reachable state:
\* set_day_override deletes all slots of the day and keeps its template, and
\* no call, create_adhoc_slot included, adds a slot to an overridden day.
C28_OverriddenDayEmpty ==
    /\ OverriddenWithSlots(days, slots) = {}
    /\ \A i \in AnyInstanceIds, d \in AnyDayDates, reason \in {NULLTEXT, "party"} :
          \A r \in {set_day_override(i, d, reason)} :
              r.res = "ok" =>
                  /\ SlotsOfDay(r.slots, i, d) = {}
                  /\ \A x \in get_instance_day(i, d) : \E y \in r.days :
                        /\ y.weekly_plan_instance_id = i
                        /\ y.date = d
                        /\ y.is_override
                        /\ y.day_template_id = x.day_template_id
    /\ \A m \in AnyMealIds :
          \A first \in IF m \in MealIds THEN FirstMealTypes(m) ELSE {NULL} :
              \A r \in {create_adhoc_slot(today, m, first)} :
                  \A x \in r.days :
                      x.is_override =>
                          SlotsOfDay(r.slots, x.weekly_plan_instance_id, x.date)
                              \subseteq slots

C28_Witness ==
    \E x \in days :
        /\ x.is_override
        /\ x.date = today
        /\ SlotsOfDay(slots, x.weekly_plan_instance_id, x.date) = {}
        /\ \E m \in MealIds, first \in MealTypes \cup {NULL} :
              /\ first \in FirstMealTypes(m)
              /\ create_adhoc_slot(today, m, first).res = "ok"

\* the slots that hold a meal and a meal type the meal is not linked to
Mislinked(t_slots) ==
    {s \in t_slots : /\ s.meal_id # NULL
                     /\ s.meal_type_id # NULL
                     /\ <<s.meal_id, s.meal_type_id>> \notin links}

\* C29: with the meal-to-type links unchanged, in every state reached by
\* generate, regenerate, switch, clear, create_adhoc_slot and reassign_slot calls
\* every slot that holds a meal and a meal type holds a meal linked to that
\* meal type.
C29_MealOfType == Mislinked(slots) = {}

C29_Witness ==
    \E s \in slots :
        /\ s.is_manual_override
        /\ s.completion_status = NULLTEXT
        /\ \E ts \in UNION {TemplateSlots[t] : t \in DayTemplates} :
              /\ ts.position = s.position
              /\ ts.meal_type_id # s.meal_type_id
        /\ \E u \in Users : \E day_seq \in DayOrders(s.date, u) :
              Mislinked(regenerate_weekly_plan(s.date, u, day_seq).slots) # {}

\* the slots of the result whose meal the call replaced and whose
\* is_manual_override is still set
ReplacedManual(r) ==
    {t \in r.slots : /\ t.is_manual_override
                     /\ \E s \in slots : /\ s.id = t.id
                                         /\ s.is_manual_override
                                         /\ s.meal_id # t.meal_id}

\* the slots the call created or gave another meal
Drawn(r) ==
    {t \in r.slots : \A s \in slots : s.id = t.id => s.meal_id # t.meal_id}

\* C30: a slot with is_manual_override set holds the meal of the latest
\* successful reassign_slot on it: reassign_slot stores its meal and sets the
\* flag, every slot that generate, regenerate, switch, clear or
\* create_adhoc_slot created or filled has the flag off, and no other call
\* replaces the meal of a slot whose flag stays set.
C30_ManualOverride ==
    /\ \A id \in AnySlotIds, m \in AnyMealIds, mt \in AnyMealTypes :
          \A r \in {reassign_slot(id, m, mt)} :
              r.res = "ok" =>
                  \A t \in r.slots :
                      IF t.id = id
                      THEN t.meal_id = m /\ t.is_manual_override
                      ELSE t \in slots
    /\ \A u \in Users :
          /\ \A ws \in WeekStartArgs, wp \in WeekPlanArgs :
                \A r \in {generate_weekly_plan(u, ws, wp)} :
                    /\ ReplacedManual(r) = {}
                    /\ \A t \in Drawn(r) : ~t.is_manual_override
          /\ \A d \in RegenerateArgs : \A day_seq \in DayOrders(d, u) :
                \A r \in {regenerate_weekly_plan(d, u, day_seq)} :
                    /\ ReplacedManual(r) = {}
                    /\ \A t \in Drawn(r) : ~t.is_manual_override
    /\ \A i \in AnyInstanceIds, d \in AnyDayDates :
          /\ \A tpl \in DayTemplates :
                \A r \in {switch_day_template(i, d, tpl)} :
                    /\ ReplacedManual(r) = {}
                    /\ \A t \in Drawn(r) : ~t.is_manual_override
          /\ \A r \in {clear_day_override(i, d)} :
                /\ ReplacedManual(r) = {}
                /\ \A t \in Drawn(r) : ~t.is_manual_override
          /\ ReplacedManual(set_day_override(i, d, "party")) = {}
    /\ \A m \in MealIds : \A first \in FirstMealTypes(m) :
          \A r \in {create_adhoc_slot(today, m, first)} :
              /\ ReplacedManual(r) = {}
              /\ \A t \in Drawn(r) : ~t.is_manual_override
    /\ \A id \in AnySlotIds :
          /\ ReplacedManual(delete_adhoc_slot(id)) = {}
          /\ ReplacedManual(uncomplete_slot(id)) = {}
          /\ \A st \in CompletionStatuses :
                ReplacedManual(complete_slot(id, st)) = {}

C30_Witness ==
    \E s \in slots :
        /\ s.is_manual_override
        /\ s.completion_status = NULLTEXT
        /\ \E u \in Users, d \in RegenerateArgs : \E day_seq \in DayOrders(d, u) :
              ReplacedManual(regenerate_weekly_plan(d, u, day_seq)) # {}

====
